---- MODULE Spec2Model ----
(***************************************************************************)
(* Document registry, per-version index store, combined index and RAG      *)
(* pipeline of llm-rag-pro (app.py, document_manager.py, db_models.py,     *)
(* rag_utils.py, vectorstore_utils.py).                                    *)
(*                                                                         *)
(* One browser session is followed through its script runs.  A run of      *)
(* process_documents is split at the file boundaries of its batch: the     *)
(* registry is committed once per file (db_models.add_document commits),   *)
(* the embedding and the persistence of the per-file indexes happen after  *)
(* the loop.  Collaborator failures (loader, registry commit, embedding    *)
(* service, completion service, disk) are inputs, limited by MaxFaults.    *)
(***************************************************************************)
EXTENDS Integers, Sequences, FiniteSets, TLC

\* ---------------------------------------------------------------- bounds
MaxDocs == 3
MaxBatch == 2
MaxFaults == 1
MaxConvs == 2
MaxMessages == 4

\* ------------------------------------------------------------- constants
\* search_kwargs={"k": 5}
RetrieverK == 5

Filenames == {"policy.pdf", "notes.docx"}

\* The number of chunks the splitter cuts each file into.
SplitCount(filename) == IF filename = "policy.pdf" THEN 2 ELSE 1

\* The category typed in the sidebar; "" is an empty input.
CategoryInputs == {"HR", ""}

\* The files an administrator uploads, each with the category chosen for it.
UploadInputs == {<<"policy.pdf", "HR">>, <<"policy.pdf", "">>, <<"notes.docx", "HR">>}

\* `category or "기타"`: the default category, written here in ASCII.
DefaultCategory == "gita"

DocIds == 1..MaxDocs

VARIABLES
    registry,      \* table document_metadata, rows in insertion order
    version_log,   \* table document_version_log
    disk,          \* index directory of each vector_store_path
    nextId,        \* next fresh uuid (doc_id and index directory)
    vectorstore,   \* st.session_state.vectorstore
    rag_workflow,  \* "rag_workflow" in st.session_state
    upl,           \* the running process_documents call, if any
    faults,        \* collaborator failures injected so far
    sess,          \* two concurrent sessions inside process_documents
    pipe,          \* the running generate_response call, if any
    cache,         \* st.cache_data entries of rag_utils.generate_response
    call,          \* what the library call of the last step returned
    conv,          \* the conversations: database tables and session dict
    optimizer      \* a DocumentSearchOptimizer: query_cache, recent_queries

vars == <<registry, version_log, disk, nextId, vectorstore, rag_workflow,
          upl, faults, sess, pipe, cache, call, conv, optimizer>>

\* ------------------------------------------------------------ data model
EffCategory(c) == IF c = "" THEN DefaultCategory ELSE c

Categories == {EffCategory(c) : c \in CategoryInputs}

Families == Filenames \X Categories

Family(r) == <<r.filename, r.category>>

Range(s) == {s[i] : i \in 1..Len(s)}

MaxOf(S) == CHOOSE m \in S : \A x \in S : x <= m

\* metadata["page"] as the loader sets it: the PDF loader numbers the pages
\* (both chunks of policy.pdf are cut from page 0), the other loaders set no
\* page.  <<>> is a missing key.
PageOf(filename, i) == IF filename = "policy.pdf" THEN <<"0">> ELSE <<>>

\* The chunks of one upload, tagged as process_documents tags them.
ChunksOf(doc_id, filename, category, version, n) ==
    [i \in 1..n |-> [doc_id |-> doc_id, n |-> i, source_file |-> filename,
                     category |-> category, version |-> version,
                     page |-> PageOf(filename, i)]]

RowChunks(r) == Range(ChunksOf(r.doc_id, r.filename, r.category, r.version, r.chunks))

\* A FAISS index is the sequence of its entries; None and a missing
\* session key are kept apart.
NoIndex == [kind |-> "none", chunks |-> <<>>]

AbsentIndex == [kind |-> "absent", chunks |-> <<>>]

IndexOf(chunks) == [kind |-> "index", chunks |-> chunks]

ChunkSet(vs) == Range(vs.chunks)

NoDir == [status |-> "absent", chunks |-> <<>>]

\* ---------------------------------------------------------- the registry
\* DBManager.get_active_documents
GetActiveDocumentsAll(reg) == SelectSeq(reg, LAMBDA r : TRUE)

GetActiveDocuments(reg) == SelectSeq(reg, LAMBDA r : r.is_active)

\* DBManager.get_documents_by_category
GetDocumentsByCategory(reg, category) ==
    SelectSeq(reg, LAMBDA r : r.category = category /\ r.is_active)

\* The rows process_documents compares the uploaded file with.
SameFile(reg, filename, category) ==
    LET docs == GetDocumentsByCategory(reg, category)
    IN  {docs[i] : i \in {j \in 1..Len(docs) : docs[j].filename = filename}}

\* existing_version: the highest version among those rows, 0 without any.
ExistingVersion(reg, filename, category) ==
    LET same == SameFile(reg, filename, category)
    IN  IF same = {} THEN 0 ELSE MaxOf({r.version : r \in same})

\* existing_doc_id: the row that set existing_version.  The query has no
\* ORDER BY and the comparison is strict, so among rows of equal highest
\* version it is the one the database returned first: any of them.
ExistingDocIds(reg, filename, category) ==
    LET same == SameFile(reg, filename, category)
    IN  {r.doc_id : r \in {x \in same :
                             x.version = ExistingVersion(reg, filename, category)}}

NewVersionSame(existing_version) == existing_version

NewVersion(existing_version) == existing_version + 1

\* DBManager.add_document: one row, committed.
AddDocument(reg, metadata) == Append(reg, metadata)

HasRow(reg, doc_id) == \E i \in 1..Len(reg) : reg[i].doc_id = doc_id

RowOf(reg, doc_id) == reg[CHOOSE i \in 1..Len(reg) : reg[i].doc_id = doc_id]

UpdateDocumentStatusNoop(reg, doc_id, is_active) == reg

\* DocumentManager.update_document_status
UpdateDocumentStatus(reg, doc_id, is_active) ==
    [i \in 1..Len(reg) |->
        IF reg[i].doc_id = doc_id THEN [reg[i] EXCEPT !.is_active = is_active]
        ELSE reg[i]]

\* session.delete(document)
DeleteRow(reg, doc_id) == SelectSeq(reg, LAMBDA r : r.doc_id # doc_id)

\* `from datetime import datetime` binds the class, so the argument
\* datetime.datetime.utcnow() of the log row raises AttributeError.
UtcnowResolves == FALSE

\* DocumentManager.create_document_version_log: the row is added only if
\* it could be built; the exception is caught and False is returned.
CreateDocumentVersionLog(log, entry) ==
    IF UtcnowResolves THEN Append(log, entry) ELSE log

\* ------------------------------------------------------- the index store
\* FAISS.merge_from: the entries of the other index are appended.
MergeFromReplace(base, other) == other

MergeFrom(base, other) == IndexOf(base.chunks \o other.chunks)

\* load_vectorstores: `if combined_vectorstore is None ... else merge_from`
MergeStep(combined, doc_vectorstore) ==
    IF combined.kind = "none" THEN doc_vectorstore
    ELSE MergeFrom(combined, doc_vectorstore)

\* FAISS.load_local on an existing directory: raises unless an index was
\* saved there and is readable.
LoadLocal(dir) ==
    IF dir.status = "ok" THEN [raises |-> FALSE, index |-> IndexOf(dir.chunks)]
    ELSE [raises |-> TRUE, index |-> NoIndex]

HandleLoadErrorPropagate(acc, doc) == [acc EXCEPT !.raised = TRUE]

\* load_vectorstores, `except Exception`: st.warning, next document.
HandleLoadError(acc, doc) == [acc EXCEPT !.warnings = @ \cup {doc.doc_id}]

\* One iteration of the loop of load_vectorstores.
LoadStep(acc, doc, dsk) ==
    LET dir == dsk[doc.vector_store_path]
    IN  IF acc.raised THEN acc
        ELSE IF dir.status = "absent" THEN acc
        ELSE LET got == LoadLocal(dir)
             IN  IF got.raises THEN HandleLoadError(acc, doc)
                 ELSE [acc EXCEPT !.combined = MergeStep(@, got.index)]

RECURSIVE LoadLoop(_, _, _, _)
LoadLoop(documents, i, acc, dsk) ==
    IF i > Len(documents) THEN acc
    ELSE LoadLoop(documents, i + 1, LoadStep(acc, documents[i], dsk), dsk)

\* load_vectorstores over the rows get_all_active_documents returned.
LoadVectorstores(documents, dsk) ==
    LoadLoop(documents, 1,
             [combined |-> NoIndex, warnings |-> {}, raised |-> FALSE], dsk)

\* The orders in which a query without ORDER BY may return the rows.
Orders(rows) ==
    LET n == Len(rows)
        perms == {p \in [1..n -> 1..n] : \A i, j \in 1..n : p[i] = p[j] => i = j}
    IN  {[i \in 1..n |-> rows[p[i]]] : p \in perms}

\* What load_vectorstores may return in a state: None without an active
\* row, else the result of the loop in one of the orders.
Rebuilds(reg, dsk) ==
    LET documents == GetActiveDocuments(reg)
    IN  IF documents = <<>>
        THEN {[combined |-> NoIndex, warnings |-> {}, raised |-> FALSE]}
        ELSE {LoadVectorstores(o, dsk) : o \in Orders(documents)}

\* ------------------------------------------------------------------ Init
IdleUpload ==
    [pc |-> "idle", category |-> "", n |-> 0, documents |-> <<>>, file_info |-> <<>>]

IdleSession ==
    [pc |-> "idle", filename |-> "", category |-> "", existing_version |-> 0,
     existing_doc_id |-> 0, doc_id |-> 0]

IdlePipe ==
    [pc |-> "idle", executed |-> <<>>, context |-> <<>>, sources |-> <<>>,
     answer |-> <<>>, need_more_info |-> FALSE, completions |-> 0,
     question |-> "", username |-> "", conversation_history |-> <<>>]

\* The questions asked, the cache of answers before any call, and the
\* step that returned nothing.
Questions == {"q1"}

NoCache == [q \in Questions |-> <<>>]

NoCall == [op |-> "none"]

\* DocumentSearchOptimizer.__init__
NewOptimizer == [query_cache |-> <<>>, recent_queries |-> <<>>]

\* ---------------------------------------------------------- conversations
\* The one user followed here.
Username == "alice"

ConvIds == 1..MaxConvs

\* db: the tables user_conversations and conversation_messages; session:
\* st.session_state.conversations; current: the session key
\* current_conversation_id_<username>, 0 when it is not set.
NoConv ==
    [db |-> [c \in ConvIds |-> [exists |-> FALSE, messages |-> <<>>]],
     session |-> [c \in ConvIds |-> [present |-> FALSE, messages |-> <<>>]],
     nextConv |-> 1,
     current |-> 0]

\* ConversationManager.__init__ in a new session: the dict starts empty.
NewSessionConversations(cv) ==
    [cv EXCEPT !.session = NoConv.session, !.current = 0]

\* ConversationManager.get_user_conversations: the rows of the user in the
\* database; the entries of the session dict when the query raises.
GetUserConversations(cv, dbOk) ==
    IF dbOk THEN {c \in ConvIds : cv.db[c].exists}
    ELSE {c \in ConvIds : cv.session[c].present}

\* ConversationManager.get_conversation_messages: the rows of the
\* conversation in the database, in the order of their timestamps.
GetConversationMessages(cv, conversation_id) ==
    IF conversation_id \in ConvIds THEN cv.db[conversation_id].messages ELSE <<>>

\* ConversationManager.create_conversation: a fresh id, a row in the
\* database unless the commit raises, an entry in the session dict.
CreateConversation(cv, dbOk) ==
    LET conversation_id == cv.nextConv
    IN  [cv EXCEPT !.db[conversation_id].exists = dbOk,
                   !.session[conversation_id].present = TRUE,
                   !.nextConv = @ + 1,
                   !.current = conversation_id]

\* What ConversationManager.add_message returns.
AddMessageReturns(cv, conversation_id) ==
    conversation_id \in ConvIds /\ cv.session[conversation_id].present

\* ConversationManager.add_message: nothing for a conversation_id that is
\* not in the session dict; else a row in the database unless the commit
\* raises, and an entry in the session dict.
AddMessage(cv, conversation_id, role, content, dbOk) ==
    IF ~AddMessageReturns(cv, conversation_id) THEN cv
    ELSE LET msg == [role |-> role, content |-> content]
         IN  [cv EXCEPT
                !.db[conversation_id].messages = IF dbOk THEN Append(@, msg) ELSE @,
                !.session[conversation_id].messages = Append(@, msg)]

Init ==
    /\ registry = <<>>
    /\ version_log = <<>>
    /\ disk = [p \in DocIds |-> NoDir]
    /\ nextId = 1
    /\ vectorstore = AbsentIndex
    /\ rag_workflow = FALSE
    /\ upl = IdleUpload
    /\ faults = 0
    /\ sess = [s \in 1..2 |-> IdleSession]
    /\ pipe = IdlePipe
    /\ cache = NoCache
    /\ call = NoCall
    /\ conv = NoConv
    /\ optimizer = NewOptimizer

\* No handler of this session is running.
Quiet == upl.pc = "idle" /\ pipe.pc = "idle" /\ \A s \in 1..2 : sess[s].pc = "idle"

\* main shows the application only after login, and initialize_app has
\* then stored a combined index (or None) in the session.
LoggedIn == vectorstore.kind # "absent"

\* --------------------------------------------------------------- uploads
\* What can go wrong with one file: the loader raises, the file yields no
\* chunk, the commit of add_document fails, the commit of
\* update_document_status fails.
FileFaults == {"none", "load", "empty", "add", "deact"}

Metadata(doc_id, filename, category, version, nchunks) ==
    [doc_id |-> doc_id, filename |-> filename, category |-> category,
     version |-> version, chunks |-> nchunks, is_active |-> TRUE,
     vector_store_path |-> doc_id]

\* process_documents, one iteration of `for uploaded_file in uploaded_files`.
ProcessFile(cin, filename, fault) ==
    /\ LoggedIn
    /\ pipe.pc = "idle" /\ \A s \in 1..2 : sess[s].pc = "idle"
    /\ \/ upl.pc = "idle"
       \/ upl.pc = "loop" /\ upl.category = cin /\ upl.n < MaxBatch
    /\ nextId <= MaxDocs
    /\ fault # "none" => faults < MaxFaults
    /\ LET category == EffCategory(cin)
           existing_version == ExistingVersion(registry, filename, category)
           new_version == NewVersion(existing_version)
           run == IF upl.pc = "idle"
                  THEN [IdleUpload EXCEPT !.pc = "loop", !.category = cin]
                  ELSE upl
           doc_id == nextId
           nchunks == IF fault = "empty" THEN 0 ELSE SplitCount(filename)
           metadata == Metadata(doc_id, filename, category, new_version, nchunks)
       IN  /\ fault = "deact" => existing_version > 0
           /\ \E existing_doc_id \in
                 (IF existing_version = 0 THEN {0}
                  ELSE ExistingDocIds(registry, filename, category)) :
               IF fault = "load"
               THEN /\ upl' = [run EXCEPT !.n = @ + 1]
                    /\ UNCHANGED <<registry, version_log, nextId>>
               ELSE /\ upl' = [run EXCEPT
                                 !.n = @ + 1,
                                 !.documents = @ \o ChunksOf(doc_id, filename,
                                                  category, new_version, nchunks),
                                 !.file_info = Append(@, metadata)]
                    /\ nextId' = nextId + 1
                    /\ version_log' =
                         IF existing_version > 0
                         THEN CreateDocumentVersionLog(version_log,
                                [doc_id |-> doc_id,
                                 previous_version |-> existing_version,
                                 new_version |-> new_version])
                         ELSE version_log
                    /\ registry' =
                         LET added == IF fault = "add" THEN registry
                                      ELSE AddDocument(registry, metadata)
                         IN  IF existing_version > 0 /\ fault # "deact"
                             THEN UpdateDocumentStatus(added, existing_doc_id, FALSE)
                             ELSE added
    /\ faults' = IF fault = "none" THEN faults ELSE faults + 1
    /\ call' = NoCall
    /\ UNCHANGED <<disk, vectorstore, rag_workflow, sess, pipe, cache, conv,
                   optimizer>>

DocsForFileAll(documents, doc_id) == documents

\* `docs_for_file`, the entries of `documents` tagged with one doc_id.
DocsForFile(documents, doc_id) == SelectSeq(documents, LAMBDA c : c.doc_id = doc_id)

\* os.makedirs(path) and, if the file has chunks, save_local(path).
Persist(dsk, documents, file_info) ==
    [p \in DocIds |->
        IF \E k \in 1..Len(file_info) : file_info[k].vector_store_path = p
        THEN LET docs == DocsForFile(documents, p)
             IN  IF docs # <<>> THEN [status |-> "ok", chunks |-> docs]
                 ELSE [status |-> "bad", chunks |-> <<>>]
        ELSE dsk[p]]

AddDocumentsFresh(vs, documents) == IndexOf(documents)

\* `st.session_state.vectorstore.add_documents(documents)`, and
\* FAISS.from_documents when there is no index to add to (the key is
\* missing, or the value is None and the call raises AttributeError).
AddDocuments(vs, documents) ==
    IF vs.kind = "index" THEN IndexOf(vs.chunks \o documents)
    ELSE IndexOf(documents)

\* `vectorstore = st.session_state.vectorstore` after add_documents: the
\* index process_documents returns is the object the session already held,
\* with the new entries added to it; from_documents builds a new object.
SameObject(vs) == vs.kind = "index"

\* process_documents after the loop, and main's use of what it returns.
EmbedAndPersist(embedOk) ==
    /\ upl.pc = "loop"
    /\ ~embedOk => faults < MaxFaults /\ upl.documents # <<>>
    /\ IF upl.documents = <<>> \/ ~embedOk
       THEN UNCHANGED <<vectorstore, rag_workflow, disk>>
       ELSE /\ vectorstore' = AddDocuments(vectorstore, upl.documents)
            /\ disk' = Persist(disk, upl.documents, upl.file_info)
            /\ rag_workflow' = TRUE
    /\ faults' = IF embedOk THEN faults ELSE faults + 1
    /\ upl' = IdleUpload
    /\ call' = [op |-> "process_documents",
                returned |-> upl.documents # <<>> /\ embedOk,
                same_object |-> /\ upl.documents # <<>>
                                /\ embedOk
                                /\ SameObject(vectorstore)]
    /\ UNCHANGED <<registry, version_log, nextId, sess, pipe, cache, conv,
                   optimizer>>

\* --------------------------------------------------------------- deletes
RemoveTreeKeep(dsk, path) == dsk

\* shutil.rmtree(vector_store_path, ignore_errors=True)
RemoveTree(dsk, path) == [dsk EXCEPT ![path] = NoDir]

DeleteReturnsTrue(reg, doc_id, commitOk) == TRUE

\* What delete_document returns: False when the row is not found or the
\* commit raises, True after the commit.
DeleteReturns(reg, doc_id, commitOk) == HasRow(reg, doc_id) /\ commitOk

\* DocumentManager.delete_document
DeleteDocument(doc_id, permanently, commitOk) ==
    /\ Quiet /\ LoggedIn
    /\ ~commitOk => faults < MaxFaults /\ HasRow(registry, doc_id)
    /\ IF ~HasRow(registry, doc_id)
       THEN UNCHANGED <<registry, disk>>
       ELSE LET document == RowOf(registry, doc_id)
            IN  /\ registry' =
                     IF ~commitOk THEN registry
                     ELSE IF permanently THEN DeleteRow(registry, doc_id)
                     ELSE UpdateDocumentStatus(registry, doc_id, FALSE)
                /\ disk' = IF permanently
                           THEN RemoveTree(disk, document.vector_store_path)
                           ELSE disk
    /\ faults' = IF commitOk THEN faults ELSE faults + 1
    /\ call' = [op |-> "delete_document", doc_id |-> doc_id,
                permanently |-> permanently,
                result |-> DeleteReturns(registry, doc_id, commitOk)]
    /\ UNCHANGED <<version_log, nextId, vectorstore, rag_workflow, upl, sess,
                   pipe, cache, conv, optimizer>>

\* DocumentManager.update_document_status(doc_id, False), called on its own.
Deactivate(doc_id) ==
    /\ Quiet /\ LoggedIn
    /\ registry' = UpdateDocumentStatus(registry, doc_id, FALSE)
    /\ call' = [op |-> "update_document_status", doc_id |-> doc_id,
                is_active |-> FALSE, result |-> HasRow(registry, doc_id)]
    /\ UNCHANGED <<version_log, disk, nextId, vectorstore, rag_workflow, upl,
                   faults, sess, pipe, cache, conv, optimizer>>

\* ------------------------------------------------------------ initialize
WorkflowAfterLoadNever(combined) == FALSE

\* `if st.session_state.vectorstore:` the workflow is compiled and stored
\* when load_vectorstores returned an index.
WorkflowAfterLoad(combined) == combined.kind = "index"

\* initialize_app in a new session, after login: the combined index is
\* rebuilt from the registry and the disk.
InitializeApp ==
    /\ Quiet
    /\ \E res \in Rebuilds(registry, disk) :
         /\ ~res.raised
         /\ vectorstore' = res.combined
         /\ rag_workflow' = WorkflowAfterLoad(res.combined)
    /\ conv' = NewSessionConversations(conv)
    /\ call' = NoCall
    /\ UNCHANGED <<registry, version_log, disk, nextId, upl, faults, sess,
                   pipe, cache, optimizer>>

\* The index directory of a version is removed or damaged from outside.
DiskDamage(path, status) ==
    /\ Quiet
    /\ faults < MaxFaults
    /\ disk[path].status = "ok"
    /\ disk' = [disk EXCEPT ![path] = [status |-> status, chunks |-> <<>>]]
    /\ faults' = faults + 1
    /\ call' = NoCall
    /\ UNCHANGED <<registry, version_log, nextId, vectorstore, rag_workflow,
                   upl, sess, pipe, cache, conv, optimizer>>

\* ------------------------------------------------- concurrent sessions
\* Two administrators, each in a session of its own (its own DBManager and
\* database connection), inside process_documents for one file.  Nothing in
\* the code orders their statements, so they interleave at the registry
\* calls.

\* Lines 174-193: the registry is read, existing_version and
\* existing_doc_id are set.
ConcRead(s, cin, filename) ==
    /\ upl.pc = "idle" /\ pipe.pc = "idle"
    /\ sess[s].pc = "idle"
    /\ nextId + Cardinality({t \in 1..2 : sess[t].pc = "read"}) <= MaxDocs
    /\ LET category == EffCategory(cin)
           existing_version == ExistingVersion(registry, filename, category)
       IN  \E existing_doc_id \in
               (IF existing_version = 0 THEN {0}
                ELSE ExistingDocIds(registry, filename, category)) :
             sess' = [sess EXCEPT ![s] =
                        [pc |-> "read", filename |-> filename, category |-> category,
                         existing_version |-> existing_version,
                         existing_doc_id |-> existing_doc_id, doc_id |-> 0]]
    /\ call' = NoCall
    /\ UNCHANGED <<registry, version_log, disk, nextId, vectorstore, rag_workflow,
                   upl, faults, pipe, cache, conv, optimizer>>

\* Lines 208-247: a fresh doc_id, the metadata, add_document.
ConcAddDocument(s) ==
    /\ sess[s].pc = "read"
    /\ LET new_version == NewVersion(sess[s].existing_version)
           metadata == Metadata(nextId, sess[s].filename, sess[s].category,
                                new_version, SplitCount(sess[s].filename))
       IN  registry' = AddDocument(registry, metadata)
    /\ nextId' = nextId + 1
    /\ sess' = [sess EXCEPT ![s].pc = "added", ![s].doc_id = nextId]
    /\ call' = NoCall
    /\ UNCHANGED <<version_log, disk, vectorstore, rag_workflow, upl, faults,
                   pipe, cache, conv, optimizer>>

\* Lines 249-261: the version log and the deactivation of the version read.
ConcDeactivate(s) ==
    /\ sess[s].pc = "added"
    /\ IF sess[s].existing_version > 0
       THEN /\ version_log' =
                 CreateDocumentVersionLog(version_log,
                     [doc_id |-> sess[s].doc_id,
                      previous_version |-> sess[s].existing_version,
                      new_version |-> NewVersion(sess[s].existing_version)])
            /\ registry' = UpdateDocumentStatus(registry, sess[s].existing_doc_id, FALSE)
       ELSE UNCHANGED <<registry, version_log>>
    /\ sess' = [sess EXCEPT ![s].pc = "registered"]
    /\ call' = NoCall
    /\ UNCHANGED <<disk, nextId, vectorstore, rag_workflow, upl, faults,
                   pipe, cache, conv, optimizer>>

\* Lines 275-315: the index of the file is embedded and saved.
ConcPersist(s) ==
    /\ sess[s].pc = "registered"
    /\ LET r == RowOf(registry, sess[s].doc_id)
           documents == ChunksOf(r.doc_id, r.filename, r.category, r.version, r.chunks)
       IN  disk' = Persist(disk, documents, <<r>>)
    /\ sess' = [sess EXCEPT ![s] = IdleSession]
    /\ call' = NoCall
    /\ UNCHANGED <<registry, version_log, nextId, vectorstore, rag_workflow, upl,
                   faults, pipe, cache, conv, optimizer>>

\* ---------------------------------------------------------- the pipeline
\* create_rag_workflow: the nodes, the edges and the entry point.
Nodes == {"retrieve", "generate", "add_sources"}

EdgesSkipGenerate ==
    {<<"retrieve", "add_sources">>, <<"generate", "add_sources">>,
     <<"add_sources", "END">>}

Edges ==
    {<<"retrieve", "generate">>, <<"generate", "add_sources">>,
     <<"add_sources", "END">>}

EntryPoint == "retrieve"

Successors(node) == {e[2] : e \in {x \in Edges : x[1] = node}}

\* What the completion service may answer: a plain answer, or an answer
\* holding the sentence "제공된 문서에서 관련 정보를 찾을 수 없습니다".
Completions == {"answer", "answer with marker"}

HasMarker(text) == text = "answer with marker"

\* similarity search with k = 5: min(k, size) entries of the index, here in
\* the order of the index.
TopK(vs) ==
    LET n == Len(vs.chunks)
        k == IF n < RetrieverK THEN n ELSE RetrieverK
        picks == {S \in SUBSET (1..n) : Cardinality(S) = k}
    IN  {SelectSeq(vs.chunks, LAMBDA c : \E i \in S : vs.chunks[i] = c) : S \in picks}

\* The entry of `sources` for one retrieved chunk:
\* metadata.get("page", "N/A").
SourceOf(c) ==
    [source |-> c.source_file,
     page |-> IF c.page = <<>> THEN "N/A" ELSE c.page[1],
     category |-> c.category]

\* retrieve_documents
RetrieveDocuments(state, docs) ==
    [state EXCEPT !.context = docs,
                  !.sources = [i \in 1..Len(docs) |-> SourceOf(docs[i])]]

\* An answer is a string built by concatenation; its parts, in order: the
\* text of the completion, the note that documents are needed, the list of
\* cited documents, an apology.
TextPart(text) == [part |-> "text", text |-> text]

Disclaimer == [part |-> "disclaimer"]

\* One line of the list of cited documents: the source, the page unless it
\* is "N/A", the category unless it is empty.
Bullet(src) ==
    [source |-> src.source,
     page |-> IF src.page # "N/A" THEN <<src.page>> ELSE <<>>,
     category |-> IF src.category # "" THEN <<src.category>> ELSE <<>>]

\* The list of cited documents: one line per entry of `sources`, in order.
CitationPart(sources) ==
    [part |-> "citations",
     bullets |-> [i \in 1..Len(sources) |-> Bullet(sources[i])]]

GenerateAnswerNoMarker(state, text) == [state EXCEPT !.answer = <<TextPart(text)>>]

\* generate_answer, given the text the completion service returned
GenerateAnswer(state, text) ==
    [state EXCEPT !.answer = <<TextPart(text)>>, !.need_more_info = HasMarker(text)]

AddSourceInformationNone(state) == [state EXCEPT !.answer = Append(@, Disclaimer)]

\* add_source_information
AddSourceInformation(state) ==
    IF state.sources = <<>>
    THEN [state EXCEPT !.answer = Append(@, Disclaimer)]
    ELSE [state EXCEPT !.answer = Append(@, CitationPart(state.sources))]

\* generate_response with an index and a workflow in the session:
\* rag_workflow.invoke(initial_state) starts at the entry point.
\* `"vectorstore" in st.session_state and st.session_state.vectorstore is
\* not None`
HasVectorstore == vectorstore.kind = "index"

\* The two apologies of generate_response: of the except branch around
\* invoke, and of the except branch around the direct completion.
ApologyRag == [part |-> "apology", of |-> "question processing"]

ApologyDirect == [part |-> "apology", of |-> "response generation"]

DirectResponsePlain(text, has_vectorstore) == <<TextPart(text)>>

\* The else branch of generate_response: the completion, and the note that
\* documents are needed when the session holds no index.
DirectResponse(text, has_vectorstore) ==
    IF ~has_vectorstore THEN <<TextPart(text), Disclaimer>> ELSE <<TextPart(text)>>

ReplyPropagate(p) ==
    IF p.pc \in {"raised", "direct_raised"}
    THEN [raised |-> TRUE, answer |-> <<>>]
    ELSE [raised |-> FALSE, answer |-> p.answer]

\* What generate_response returns once invoke, or the direct completion,
\* has returned or raised.
Reply(p) ==
    IF p.pc = "raised" THEN [raised |-> FALSE, answer |-> <<ApologyRag>>]
    ELSE IF p.pc = "direct_raised" THEN [raised |-> FALSE, answer |-> <<ApologyDirect>>]
    ELSE [raised |-> FALSE, answer |-> p.answer]

\* generate_response(prompt, username, conversation_id) up to the branch:
\* the history is read, and initial_state is built when the graph is used.
StartQuery(prompt) ==
    /\ Quiet /\ LoggedIn
    /\ LET initial_state ==
             [IdlePipe EXCEPT
                !.question = prompt,
                !.username = Username,
                !.conversation_history = GetConversationMessages(conv, conv.current)]
       IN  pipe' = IF HasVectorstore /\ rag_workflow
                   THEN [initial_state EXCEPT !.pc = EntryPoint]
                   ELSE [initial_state EXCEPT !.pc = "direct"]
    /\ call' = NoCall
    /\ UNCHANGED <<registry, version_log, disk, nextId, vectorstore, rag_workflow,
                   upl, faults, sess, cache, conv, optimizer>>

\* One node of the graph runs; the edge leaving it names what follows.  A
\* node whose service call raises ends invoke with the exception.
RunNode(ok) ==
    /\ pipe.pc \in Nodes
    /\ ~ok => faults < MaxFaults /\ pipe.pc \in {"retrieve", "generate"}
    /\ faults' = IF ok THEN faults ELSE faults + 1
    /\ LET ran == [pipe EXCEPT !.executed = Append(@, pipe.pc),
                               !.completions = IF pipe.pc = "generate" THEN @ + 1 ELSE @]
       IN  IF ~ok THEN pipe' = [ran EXCEPT !.pc = "raised"]
           ELSE \E nxt \in Successors(pipe.pc) :
                  \/ /\ pipe.pc = "retrieve"
                     /\ \E docs \in (IF vectorstore.kind = "index"
                                     THEN TopK(vectorstore) ELSE {<<>>}) :
                          pipe' = [RetrieveDocuments(ran, docs) EXCEPT !.pc = nxt]
                  \/ /\ pipe.pc = "generate"
                     /\ \E text \in Completions :
                          pipe' = [GenerateAnswer(ran, text) EXCEPT !.pc = nxt]
                  \/ /\ pipe.pc = "add_sources"
                     /\ pipe' = [AddSourceInformation(ran) EXCEPT !.pc = nxt]
    /\ call' = NoCall
    /\ UNCHANGED <<registry, version_log, disk, nextId, vectorstore, rag_workflow,
                   upl, sess, cache, conv, optimizer>>

\* generate_response without an index or without a workflow: one call of
\* the completion service, outside the graph.
DirectCompletion(ok) ==
    /\ pipe.pc = "direct"
    /\ ~ok => faults < MaxFaults
    /\ faults' = IF ok THEN faults ELSE faults + 1
    /\ LET ran == [pipe EXCEPT !.completions = @ + 1]
       IN  IF ~ok THEN pipe' = [ran EXCEPT !.pc = "direct_raised"]
           ELSE \E text \in Completions :
                  pipe' = [ran EXCEPT !.pc = "direct_done",
                                      !.answer = DirectResponse(text, HasVectorstore)]
    /\ call' = NoCall
    /\ UNCHANGED <<registry, version_log, disk, nextId, vectorstore, rag_workflow,
                   upl, sess, cache, conv, optimizer>>

\* invoke or the direct completion has returned or raised: generate_response
\* returns the answer, or the apology of its except branch, to
\* chat_interface.
ReturnAnswer ==
    /\ pipe.pc \in {"END", "raised", "direct_done", "direct_raised"}
    /\ pipe' = IdlePipe
    /\ call' = [op |-> "generate_response",
                has_vectorstore |-> HasVectorstore,
                ended |-> pipe.pc,
                executed |-> pipe.executed,
                context |-> pipe.context,
                sources |-> pipe.sources,
                completions |-> pipe.completions,
                result |-> Reply(pipe)]
    /\ UNCHANGED <<registry, version_log, disk, nextId, vectorstore, rag_workflow,
                   upl, faults, sess, cache, conv, optimizer>>

\* ----------------------------------------------------------------- chat
\* What generate_response_func hands back to chat_interface.
Responses == {"answer", "apology"}

NotConv == <<registry, version_log, disk, nextId, vectorstore, rag_workflow,
             upl, faults, sess, pipe, cache, optimizer>>

\* editable_conversation_list when the session has no current
\* conversation: the first conversation listed (the one updated last)
\* becomes current; without any, a new conversation is created.
EditableConversationList(dbOk) ==
    /\ Quiet /\ LoggedIn
    /\ conv.current = 0
    /\ LET conversations == GetUserConversations(conv, TRUE)
       IN  IF conversations # {}
           THEN /\ dbOk
                /\ conv' = [conv EXCEPT !.current = MaxOf(conversations)]
           ELSE /\ conv.nextConv <= MaxConvs
                /\ ~dbOk => faults < MaxFaults
                /\ conv' = CreateConversation(conv, dbOk)
    /\ faults' = IF dbOk THEN faults ELSE faults + 1
    /\ call' = NoCall
    /\ UNCHANGED <<registry, version_log, disk, nextId, vectorstore, rag_workflow,
                   upl, sess, pipe, cache, optimizer>>

\* The button of a listed conversation: it becomes current.
SelectConversation(conversation_id) ==
    /\ Quiet /\ LoggedIn
    /\ conv.current # 0
    /\ conversation_id \in GetUserConversations(conv, TRUE)
    /\ conversation_id # conv.current
    /\ conv' = [conv EXCEPT !.current = conversation_id]
    /\ call' = NoCall
    /\ UNCHANGED NotConv

\* The button "new conversation".
NewConversation(dbOk) ==
    /\ Quiet /\ LoggedIn
    /\ conv.current # 0
    /\ conv.nextConv <= MaxConvs
    /\ ~dbOk => faults < MaxFaults
    /\ conv' = CreateConversation(conv, dbOk)
    /\ faults' = IF dbOk THEN faults ELSE faults + 1
    /\ call' = NoCall
    /\ UNCHANGED <<registry, version_log, disk, nextId, vectorstore, rag_workflow,
                   upl, sess, pipe, cache, optimizer>>

\* chat_interface with a prompt typed: add_message for the user turn, the
\* response of generate_response_func, add_message for the assistant turn.
ChatInterface(prompt, response, dbOk) ==
    /\ Quiet /\ LoggedIn
    /\ conv.current # 0
    /\ Len(conv.db[conv.current].messages) + 2 <= MaxMessages
    /\ Len(conv.session[conv.current].messages) + 2 <= MaxMessages
    /\ ~dbOk => faults < MaxFaults /\ AddMessageReturns(conv, conv.current)
    /\ LET conversation_id == conv.current
           asked == AddMessage(conv, conversation_id, "user", prompt, dbOk)
           answered == AddMessage(asked, conversation_id, "assistant", response, TRUE)
       IN  /\ conv' = answered
           /\ call' = [op |-> "chat_interface",
                       conversation_id |-> conversation_id,
                       prompt |-> prompt,
                       response |-> response,
                       listed |-> conversation_id \in GetUserConversations(conv, TRUE),
                       results |-> <<AddMessageReturns(conv, conversation_id),
                                     AddMessageReturns(asked, conversation_id)>>]
    /\ faults' = IF dbOk THEN faults ELSE faults + 1
    /\ UNCHANGED <<registry, version_log, disk, nextId, vectorstore, rag_workflow,
                   upl, sess, pipe, cache, optimizer>>

\* ------------------------------------------------------ cached answers
\* rag_utils.generate_response is the same function under
\* @st.cache_data(ttl=600): the key is (prompt, username, conversation_id),
\* the entry is the string returned, and the cache belongs to the server
\* process, not to a session.

\* The body of generate_response, run to its return: the answers it can
\* give in the present session state.
ComputedAnswers(ok) ==
    IF HasVectorstore /\ rag_workflow
    THEN IF ~ok THEN {<<ApologyRag>>}
         ELSE {AddSourceInformation(
                  GenerateAnswer(RetrieveDocuments(IdlePipe, docs), text)).answer :
                      docs \in TopK(vectorstore), text \in Completions}
    ELSE IF ~ok THEN {<<ApologyDirect>>}
         ELSE {DirectResponse(text, HasVectorstore) : text \in Completions}

\* One call of the cached function: a hit returns the entry, a miss runs
\* the body and stores what it returns.
CachedGenerateResponse(q, ok) ==
    /\ Quiet /\ LoggedIn
    /\ IF cache[q] # <<>>
       THEN /\ ok
            /\ call' = [op |-> "cached_generate_response", question |-> q,
                        hit |-> TRUE, answer |-> cache[q][1]]
            /\ UNCHANGED <<cache, faults>>
       ELSE /\ ~ok => faults < MaxFaults
            /\ faults' = IF ok THEN faults ELSE faults + 1
            /\ \E answer \in ComputedAnswers(ok) :
                 /\ cache' = [cache EXCEPT ![q] = <<answer>>]
                 /\ call' = [op |-> "cached_generate_response", question |-> q,
                             hit |-> FALSE, answer |-> answer]
    /\ UNCHANGED <<registry, version_log, disk, nextId, vectorstore, rag_workflow,
                   upl, sess, pipe, conv, optimizer>>

\* ttl=600: an entry older than ten minutes is dropped.
ExpireCache(q) ==
    /\ cache[q] # <<>>
    /\ cache' = [cache EXCEPT ![q] = <<>>]
    /\ call' = NoCall
    /\ UNCHANGED <<registry, version_log, disk, nextId, vectorstore, rag_workflow,
                   upl, faults, sess, pipe, conv, optimizer>>

\* ------------------------------------------------------------------ Next
Upload == \E u \in UploadInputs, fault \in FileFaults : ProcessFile(u[2], u[1], fault)

Finish == \E embedOk \in BOOLEAN : EmbedAndPersist(embedOk)

\* The doc_ids handed to a delete: those issued so far and one never issued.
DeleteInputs == {d \in DocIds : d <= nextId}

Delete ==
    \E doc_id \in DeleteInputs, permanently \in BOOLEAN, commitOk \in BOOLEAN :
        DeleteDocument(doc_id, permanently, commitOk)

DeactivateAny == \E doc_id \in DocIds : Deactivate(doc_id)

Damage == \E path \in DocIds, status \in {"absent", "bad"} : DiskDamage(path, status)

Next ==
    \/ Upload
    \/ Finish
    \/ Delete
    \/ DeactivateAny
    \/ InitializeApp
    \/ Damage

Spec == Init /\ [][Next]_vars

\* The same handlers when no collaborator fails.
UploadOk == \E u \in UploadInputs : ProcessFile(u[2], u[1], "none")

FinishOk == EmbedAndPersist(TRUE)

SoftDeleteOk == \E doc_id \in DeleteInputs : DeleteDocument(doc_id, FALSE, TRUE)

PermanentDeleteOk == \E doc_id \in DeleteInputs : DeleteDocument(doc_id, TRUE, TRUE)

\* Uploads one after another, nothing else.
NextUploads == UploadOk \/ FinishOk \/ InitializeApp

SpecUploads == Init /\ [][NextUploads]_vars

\* Uploads, soft deletes and deactivations.
NextVersions == UploadOk \/ FinishOk \/ SoftDeleteOk \/ DeactivateAny \/ InitializeApp

SpecVersions == Init /\ [][NextVersions]_vars

\* Uploads, soft deletes and permanent deletes, no registry write failing.
NextSeq == UploadOk \/ FinishOk \/ SoftDeleteOk \/ PermanentDeleteOk \/ InitializeApp

SpecSeq == Init /\ [][NextSeq]_vars

\* Uploads with their failures (loader, empty file, registry commits,
\* embedding service), and nothing else.
NextIngest == Upload \/ Finish \/ InitializeApp

SpecIngest == Init /\ [][NextIngest]_vars

\* Questions answered through the cached function, between uploads, soft
\* deletes and rebuilds.
CachedQuery == \E q \in Questions, ok \in BOOLEAN : CachedGenerateResponse(q, ok)

Expire == \E q \in Questions : ExpireCache(q)

NextCache ==
    UploadOk \/ FinishOk \/ SoftDeleteOk \/ InitializeApp \/ CachedQuery \/ Expire

SpecCache == Init /\ [][NextCache]_vars

\* Two sessions uploading at the same time.
ConcUpload ==
    \E s \in 1..2 :
        \/ \E u \in UploadInputs : ConcRead(s, u[2], u[1])
        \/ ConcAddDocument(s)
        \/ ConcDeactivate(s)
        \/ ConcPersist(s)

SpecConc == Init /\ [][ConcUpload]_vars

\* Questions asked between uploads and soft deletes.
Query ==
    \/ \E prompt \in Questions : StartQuery(prompt)
    \/ \E ok \in BOOLEAN : RunNode(ok)
    \/ \E ok \in BOOLEAN : DirectCompletion(ok)
    \/ ReturnAnswer

NextQuery == UploadOk \/ FinishOk \/ SoftDeleteOk \/ InitializeApp \/ Query

SpecQuery == Init /\ [][NextQuery]_vars

\* Uploads and deletes, the commit of a delete failing or not.
NextDeletes == UploadOk \/ FinishOk \/ Delete \/ InitializeApp

SpecDeletes == Init /\ [][NextDeletes]_vars

\* The conversations of the user: the sidebar, the buttons and the chat
\* input, over sessions.
Sidebar == \E dbOk \in BOOLEAN : EditableConversationList(dbOk)

Select == \E c \in ConvIds : SelectConversation(c)

\* The same handlers when no database call fails.
SidebarOk == EditableConversationList(TRUE)

NewChatOk == NewConversation(TRUE)

ChatOk ==
    \E prompt \in Questions, response \in Responses :
        ChatInterface(prompt, response, TRUE)

NextChat == InitializeApp \/ SidebarOk \/ Select \/ NewChatOk \/ ChatOk

SpecChat == Init /\ [][NextChat]_vars

\* A conversation of an earlier session with one exchange in the database.
PriorExchange ==
    NewSessionConversations(
        AddMessage(AddMessage(CreateConversation(NoConv, TRUE),
                              1, "user", "q1", TRUE),
                   1, "assistant", "answer", TRUE))

\* Questions asked in a conversation, new or of an earlier session, between
\* uploads and soft deletes.
InitStages ==
    /\ registry = <<>>
    /\ version_log = <<>>
    /\ disk = [p \in DocIds |-> NoDir]
    /\ nextId = 1
    /\ vectorstore = AbsentIndex
    /\ rag_workflow = FALSE
    /\ upl = IdleUpload
    /\ faults = 0
    /\ sess = [s \in 1..2 |-> IdleSession]
    /\ pipe = IdlePipe
    /\ cache = NoCache
    /\ call = NoCall
    /\ conv \in {NoConv, PriorExchange}
    /\ optimizer = NewOptimizer

NextStages == NextQuery \/ Sidebar

SpecStages == InitStages /\ [][NextStages]_vars

\* ---------------------------------------------------------------- claims
FamilyRows(reg, fam) == SelectSeq(reg, LAMBDA r : Family(r) = fam)

ActiveRows(reg) == {r \in Range(reg) : r.is_active}

ActiveChunks(reg) == UNION {RowChunks(r) : r \in ActiveRows(reg)}

\* C1: after N successive successful uploads of a family, its rows carry
\* the versions 1..N in upload order, the last one is active and the
\* earlier ones are inactive.
C1_VersionMonotonicity ==
    \A fam \in Families :
        LET rows == FamilyRows(registry, fam)
        IN  \A i \in 1..Len(rows) :
                /\ rows[i].version = i
                /\ rows[i].is_active = (i = Len(rows))

C1_Witness ==
    \E fam \in Families :
        /\ Len(FamilyRows(registry, fam)) = 3
        /\ upl.pc = "idle"

\* C2: no two rows of a family carry the same version: a new upload gets
\* 1 + the highest version of all rows of the family, active or not.
C2_NoVersionReuse ==
    \A i, j \in 1..Len(registry) :
        (i # j /\ Family(registry[i]) = Family(registry[j]))
            => registry[i].version # registry[j].version

\* C3: with sequential uploads, soft deletes and permanent deletes and no
\* failing registry write, a family has at most one active row.
C3_AtMostOneActive ==
    \A fam \in Families :
        Cardinality({r \in ActiveRows(registry) : Family(r) = fam}) <= 1

C3_Witness ==
    /\ upl.pc = "idle"
    /\ Len(registry) < nextId - 1
    /\ \E fam \in Families :
        /\ Len(FamilyRows(registry, fam)) = 2
        /\ Cardinality({r \in ActiveRows(registry) : Family(r) = fam}) = 1

\* C5: every upload that found an active prior version has appended one
\* log entry previous_version -> previous_version + 1, and a first upload
\* of a family none: the log holds exactly one entry per row of a version
\* above 1.
C5_VersionLogEntries ==
    /\ Range(version_log) =
         {[doc_id |-> r.doc_id, previous_version |-> r.version - 1,
           new_version |-> r.version] : r \in {x \in Range(registry) : x.version > 1}}
    /\ Len(version_log) = Cardinality({x \in Range(registry) : x.version > 1})

\* C6: once an upload or a delete has completed, the combined index of the
\* session holds the chunks of the active versions, all of them and no
\* others.
C6_IndexMatchesActive ==
    (upl.pc = "idle" /\ LoggedIn) => ChunkSet(vectorstore) = ActiveChunks(registry)

\* C4: two concurrent uploads of one family are serialized: once both have
\* registered, the rows of each family carry the versions 1..n, each once,
\* and at most one row of the family is active.
C4_UploadsSerialized ==
    (\A s \in 1..2 : sess[s].pc \in {"idle", "registered"}) =>
        \A fam \in Families :
            LET rows == FamilyRows(registry, fam)
            IN  /\ {rows[i].version : i \in 1..Len(rows)} = 1..Len(rows)
                /\ Cardinality({r \in ActiveRows(registry) : Family(r) = fam}) <= 1

DirStatus(r) == disk[r.vector_store_path].status

ReadableChunks == UNION {RowChunks(r) : r \in {x \in ActiveRows(registry) : DirStatus(x) = "ok"}}

OkDirs == {p \in DocIds : disk[p].status = "ok"}

Loaded(p) == LoadLocal(disk[p]).index

\* C9: merging is commutative and associative on the set of chunks, and
\* the order in which load_vectorstores iterates the active versions does
\* not change the set of chunks of its result.
C9_MergeOrderIrrelevant ==
    /\ \A a, b \in OkDirs :
         a # b => ChunkSet(MergeFrom(Loaded(a), Loaded(b)))
                    = ChunkSet(MergeFrom(Loaded(b), Loaded(a)))
    /\ \A a, b, c \in OkDirs :
         (a # b /\ b # c /\ a # c) =>
            ChunkSet(MergeFrom(MergeFrom(Loaded(a), Loaded(b)), Loaded(c)))
              = ChunkSet(MergeFrom(Loaded(a), MergeFrom(Loaded(b), Loaded(c))))
    /\ \A r1, r2 \in Rebuilds(registry, disk) :
         ChunkSet(r1.combined) = ChunkSet(r2.combined)

C9_Witness ==
    /\ Cardinality(OkDirs) = 3
    /\ Cardinality({r \in ActiveRows(registry) : DirStatus(r) = "ok"}) = 3
    /\ Cardinality({res.combined : res \in Rebuilds(registry, disk)}) = 6

Stages == <<"retrieve", "generate", "add_sources">>

IsPrefix(s, t) == Len(s) <= Len(t) /\ \A i \in 1..Len(s) : s[i] = t[i]

\* C10 as claimed: every invocation of the pipeline has run retrieve,
\* generate and add_sources, each once and in that order, when it ends.
C10_EveryInvocationRunsAllStages ==
    pipe.pc \in {"END", "raised"} => pipe.executed = Stages

\* C10 as amended: the stages run are always a prefix of retrieve,
\* generate, add_sources (none skipped, repeated or reordered); an
\* invocation that returns has run all three, and one that a raising stage
\* ends has run the stages up to that one and no later stage.
C10_StagesInOrder ==
    /\ IsPrefix(pipe.executed, Stages)
    /\ pipe.pc = "END" => pipe.executed = Stages
    /\ pipe.pc \in Nodes => \E i \in 1..3 : Stages[i] = pipe.pc /\ Len(pipe.executed) = i - 1
    /\ pipe.pc = "raised" => Len(pipe.executed) \in 1..2

C10_Witness ==
    /\ pipe.pc = "END"
    /\ pipe.executed = Stages
    /\ pipe.context # <<>>

C17_DeleteUnknownIsNotFound ==
    [][(call'.op = "delete_document" /\ ~HasRow(registry, call'.doc_id)) =>
         /\ call'.result = FALSE
         /\ UNCHANGED <<registry, version_log, disk>>]_vars

C17_Witness ==
    /\ call.op = "delete_document" /\ ~call.result
    /\ ~HasRow(registry, call.doc_id)
    /\ \E r \in Range(registry) : disk[r.vector_store_path].status = "ok"

CompletionFailed(c) ==
    \/ c.ended = "direct_raised"
    \/ c.ended = "raised" /\ c.executed = <<"retrieve", "generate">>

C12_CompletionFailureGivesApology ==
    (call.op = "generate_response" /\ CompletionFailed(call)) =>
        /\ ~call.result.raised
        /\ call.result.answer =
             <<IF call.ended = "raised" THEN ApologyRag ELSE ApologyDirect>>
        /\ call.completions = 1

C12_Witness ==
    /\ call.op = "generate_response"
    /\ call.ended = "raised"
    /\ call.executed = <<"retrieve", "generate">>
    /\ call.context # <<>>

\* process_documents returns (or raises) in this step.
BatchEnds == upl.pc = "loop" /\ upl'.pc = "idle"

\* C13: when process_documents ends, each file of the batch that has
\* chunks and a registry row is either in: its chunks are in the combined
\* index of the session and its index is saved, whatever happened to the
\* other files; or out, as a failed file: its row is not active and none of
\* its chunks is in the combined index.
C13_BatchFailureIsolated ==
    [][BatchEnds =>
         \A k \in 1..Len(upl.file_info) :
            LET m == upl.file_info[k]
            IN  (HasRow(registry', m.doc_id) /\ m.chunks > 0) =>
                   \/ /\ RowChunks(m) \subseteq ChunkSet(vectorstore')
                      /\ disk'[m.vector_store_path].status = "ok"
                   \/ /\ ~RowOf(registry', m.doc_id).is_active
                      /\ RowChunks(m) \cap ChunkSet(vectorstore') = {}]_vars

\* C14: in every state each active row of the registry has an index saved
\* at its vector_store_path.
C14_ActiveRowsArePersisted ==
    \A r \in ActiveRows(registry) : disk[r.vector_store_path].status = "ok"

\* C15: when process_documents ends, a file whose add_document did not
\* commit has no index directory, no chunk in the combined index of the
\* session and no entry in the file_info returned.
C15_FailedRegistryWriteLeavesNothing ==
    [][BatchEnds =>
         \A d \in DocIds :
            (d < nextId /\ ~HasRow(registry', d)) =>
               /\ disk'[d].status = "absent"
               /\ \A c \in ChunkSet(vectorstore') : c.doc_id # d
               /\ \A k \in 1..Len(upl.file_info) : upl.file_info[k].doc_id # d]_vars

Citations(answer) ==
    UNION {Range(answer[i].bullets) :
             i \in {j \in 1..Len(answer) : answer[j].part = "citations"}}

IndexSources == {Bullet(SourceOf(c)) : c \in ChunkSet(vectorstore)}

\* C18: an answer served by the cached generate_response comes from the
\* index the session holds now: every document it cites is in that index,
\* and it is an answer given without documents only when the session holds
\* no index.
C18_NoStaleCachedAnswer ==
    call.op = "cached_generate_response" =>
        /\ Citations(call.answer) \subseteq IndexSources
        /\ (\E i \in 1..Len(call.answer) : call.answer[i] = Disclaimer)
              => ~HasVectorstore

\* --------------------------------------- performance_optimizer.py: search

\* Largest top_k a caller passes.
MaxTopK == 2

\* performance_optimizer.py is not a valid Python module: the statements
\* after DocumentSearchOptimizer.search stand in the class body, and the
\* compiler rejects the file with "'return' outside function", so that
\* importing the module raises and none of its functions can be called.
ModuleCompiles == FALSE

\* str.lower on the words of the questions.
Lower(w) == IF w = "Annual" THEN "annual" ELSE w

\* query.split() of the questions asked.
Queries == {<<"Annual", "leave">>, <<"the", "leave">>, <<"the">>}

\* The documents of an index; page_content is the set of lower-case words
\* that occur in the lower-cased text.
Documents ==
    { [id |-> 1, metadata |-> [category |-> "HR", version |-> 3],
       page_content |-> {"annual", "leave"}],
      [id |-> 2, metadata |-> [category |-> "Finance", version |-> 1],
       page_content |-> {"the"}],
      [id |-> 3, metadata |-> [category |-> "HR", version |-> 3],
       page_content |-> {"annual", "leave", "the"}],
      [id |-> 4, metadata |-> [category |-> "Finance"],
       page_content |-> {"leave"}] }

\* The documents of an index in the order of their similarity to the
\* question: every ordering of every set of documents.
Indexes ==
    {s \in UNION {[1..n -> Documents] : n \in 0..Cardinality(Documents)} :
        \A i, j \in 1..Len(s) : i # j => s[i] # s[j]}

\* filters: a dict, as the set of its items; None is the empty set.
Filters == {{}, {<<"category", "HR">>}, {<<"category", "Finance">>}}

FilterHas(filters, key) == \E kv \in filters : kv[1] = key

FilterGet(filters, key) == (CHOOSE kv \in filters : kv[1] = key)[2]

\* The metadata of doc agrees with every item of the filter.
MatchesFilter(doc, filters) ==
    \A kv \in filters :
        /\ kv[1] \in DOMAIN doc.metadata
        /\ doc.metadata[kv[1]] = kv[2]

\* vectorstore.similarity_search(query, k=k, filter=filters): the k most
\* similar documents among those the filter keeps.
SimilaritySearch(index, filters, k) ==
    LET kept == SelectSeq(index, LAMBDA d : MatchesFilter(d, filters))
    IN  SubSeq(kept, 1, IF Len(kept) < k THEN Len(kept) ELSE k)

\* matches: the words of the question longer than 3 characters whose
\* lower case occurs in the lower-cased text, counted as often as they
\* stand in the question.
Matches(doc, query) ==
    Cardinality({i \in 1..Len(query) :
                    Len(query[i]) > 3 /\ Lower(query[i]) \in doc.page_content})

\* score of a document, times 10000: 1.0, times 1.2 when the filters name
\* the category of the document, times 1 + 0.05 * version when the metadata
\* has a version, times 1 + 0.1 * matches.
Score(doc, query, filters) ==
    LET category_bonus ==
            IF /\ filters # {}
               /\ FilterHas(filters, "category")
               /\ "category" \in DOMAIN doc.metadata
               /\ doc.metadata.category = FilterGet(filters, "category")
            THEN 12 ELSE 10
        version_bonus ==
            IF "version" \in DOMAIN doc.metadata
            THEN 100 + doc.metadata.version * 5 ELSE 100
    IN  category_bonus * version_bonus * (10 + Matches(doc, query))

\* One step of the stable sort with reverse=True: x goes behind every
\* element whose score is not lower.
InsertByScore(x, sorted) ==
    LET ahead == {i \in 1..Len(sorted) : sorted[i].score >= x.score}
        n == Cardinality(ahead)
    IN  SubSeq(sorted, 1, n) \o <<x>> \o SubSeq(sorted, n + 1, Len(sorted))

RECURSIVE SortByScore(_)
\* scored_results.sort(key=lambda x: x[1], reverse=True)
SortByScore(scored) ==
    IF scored = <<>> THEN <<>>
    ELSE InsertByScore(scored[Len(scored)],
                       SortByScore(SubSeq(scored, 1, Len(scored) - 1)))

\* scored_results before the sort.
ScoredResults(results, query, filters) ==
    [i \in 1..Len(results) |->
        [doc |-> results[i], score |-> Score(results[i], query, filters)]]

\* The body of improved_vector_search: the candidates it fetched and the
\* documents it returns; a similarity_search that raises gives [].
ImprovedVectorSearch(index, query, filters, top_k, searchOk) ==
    LET results == IF searchOk
                   THEN SimilaritySearch(index, filters, top_k * 2)
                   ELSE <<>>
        sorted  == SortByScore(ScoredResults(results, query, filters))
    IN  [candidates |-> results,
         result |-> [i \in 1..(IF Len(sorted) < top_k THEN Len(sorted)
                                                       ELSE top_k)
                        |-> sorted[i].doc]]

\* A caller is about to import performance_optimizer and call
\* PerformanceOptimizer.improved_vector_search on an index.
InitSearch ==
    /\ registry = <<>>
    /\ version_log = <<>>
    /\ disk = [p \in DocIds |-> NoDir]
    /\ nextId = 1
    /\ vectorstore = AbsentIndex
    /\ rag_workflow = FALSE
    /\ upl = IdleUpload
    /\ faults = 0
    /\ sess = [s \in 1..2 |-> IdleSession]
    /\ pipe = IdlePipe
    /\ cache = NoCache
    /\ conv = NoConv
    /\ optimizer = NewOptimizer
    /\ \E index \in Indexes, query \in Queries, filters \in Filters,
          top_k \in 1..MaxTopK, searchOk \in BOOLEAN :
          call = [op |-> "improved_vector_search", stage |-> "called",
                  index |-> index, query |-> query, filters |-> filters,
                  top_k |-> top_k, searchOk |-> searchOk,
                  candidates |-> <<>>, result |-> <<>>]

\* from performance_optimizer import PerformanceOptimizer, then the call.
CallImprovedVectorSearch ==
    /\ call.op = "improved_vector_search"
    /\ call.stage = "called"
    /\ call' =
         IF ModuleCompiles
         THEN LET r == ImprovedVectorSearch(call.index, call.query,
                           call.filters, call.top_k, call.searchOk)
              IN  [call EXCEPT !.stage = "returned",
                               !.candidates = r.candidates,
                               !.result = r.result]
         ELSE [call EXCEPT !.stage = "raised"]
    /\ UNCHANGED <<registry, version_log, disk, nextId, vectorstore,
                   rag_workflow, upl, faults, sess, pipe, cache, conv,
                   optimizer>>

NextSearch == CallImprovedVectorSearch

SpecSearch == InitSearch /\ [][NextSearch]_vars

\* The search was called and is over.
SearchOver == call.op = "improved_vector_search" /\ call.stage # "called"

\* Position of doc in the sequence s, 0 when it is not there.
PositionIn(s, doc) ==
    IF \E i \in 1..Len(s) : s[i] = doc
    THEN CHOOSE i \in 1..Len(s) : s[i] = doc ELSE 0

\* C19: a search that is over has returned, and the composite score of each
\* candidate, times 10000, is 10000 x (1.2 if a category filter is given and
\* the category of the candidate equals it, else 1) x (1 + 0.05 x version)
\* x (1 + 0.1 x N), N the number of question words longer than 3 characters
\* in the text; with filter category HR the candidate (HR, version 3, N = 2)
\* scores 16560, the candidate (Finance, version 1, N = 0) scores 10500, and
\* the first is returned before the second whenever both are returned.
C19_CompositeScore ==
    SearchOver =>
        /\ call.stage = "returned"
        /\ \A i \in 1..Len(call.candidates) :
              LET c == call.candidates[i]
                  hit == \E kv \in call.filters :
                            kv[1] = "category" /\ kv[2] = c.metadata.category
                  v == IF "version" \in DOMAIN c.metadata
                       THEN c.metadata.version ELSE 0
                  N == Cardinality({j \in 1..Len(call.query) :
                          /\ Len(call.query[j]) > 3
                          /\ Lower(call.query[j]) \in c.page_content})
              IN  /\ Score(c, call.query, call.filters)
                        = (IF hit THEN 12 ELSE 10) * (100 + 5 * v) * (10 + N)
                  /\ (hit /\ c.metadata.category = "HR" /\ v = 3 /\ N = 2)
                        => Score(c, call.query, call.filters) = 16560
                  /\ (~hit /\ c.metadata.category = "Finance" /\ v = 1 /\ N = 0
                        /\ call.filters # {})
                        => Score(c, call.query, call.filters) = 10500
        /\ \A i, j \in 1..Len(call.result) :
              (/\ Score(call.result[i], call.query, call.filters) = 16560
               /\ Score(call.result[j], call.query, call.filters) = 10500)
                 => i < j

\* C20: a search that is over has returned; at most 2 * top_k candidates
\* were fetched; the result has min(top_k, number of candidates) elements,
\* each of them a candidate; the scores of the result do not increase; no
\* candidate left out has a higher score than one returned; and candidates
\* of equal score keep the order of their similarity rank.
C20_RankedAndTruncated ==
    SearchOver =>
        LET cands == call.candidates
            res == call.result
            sc(d) == Score(d, call.query, call.filters)
        IN  /\ call.stage = "returned"
            /\ Len(cands) <= 2 * call.top_k
            /\ Len(res) = (IF Len(cands) < call.top_k THEN Len(cands)
                                                      ELSE call.top_k)
            /\ Range(res) \subseteq Range(cands)
            /\ \A i, j \in 1..Len(res) : i < j => sc(res[i]) >= sc(res[j])
            /\ \A c \in Range(cands) \ Range(res) :
                  \A r \in Range(res) : sc(c) <= sc(r)
            /\ \A i, j \in 1..Len(res) :
                  (i < j /\ sc(res[i]) = sc(res[j]))
                     => PositionIn(cands, res[i]) < PositionIn(cands, res[j])
            /\ \A c \in Range(cands) \ Range(res) :
                  \A r \in Range(res) :
                     sc(c) = sc(r)
                        => PositionIn(cands, r) < PositionIn(cands, c)

\* ------------------------------------------------- the ANNOTATE stage

\* The most chunks a retrieval returns here.
MaxRetrieved == 3

\* The chunks an index can hold: those of a first upload of each file.
ChunkPool ==
    UNION {Range(ChunksOf(1, u[1], EffCategory(u[2]), 1, SplitCount(u[1]))) :
             u \in UploadInputs}

\* What the retriever can return: distinct entries of an index, in the
\* order of their similarity, or nothing.
Retrievals ==
    {s \in UNION {[1..n -> ChunkPool] : n \in 0..MaxRetrieved} :
        \A i, j \in 1..Len(s) : i # j => s[i] # s[j]}

\* The state that reaches add_sources: retrieve and generate have run.
InitAnnotate ==
    /\ registry = <<>>
    /\ version_log = <<>>
    /\ disk = [p \in DocIds |-> NoDir]
    /\ nextId = 1
    /\ vectorstore = AbsentIndex
    /\ rag_workflow = FALSE
    /\ upl = IdleUpload
    /\ faults = 0
    /\ sess = [s \in 1..2 |-> IdleSession]
    /\ pipe = IdlePipe
    /\ cache = NoCache
    /\ conv = NoConv
    /\ optimizer = NewOptimizer
    /\ \E docs \in Retrievals, text \in Completions :
          call = [op |-> "add_source_information", stage |-> "called",
                  docs |-> docs,
                  state |-> GenerateAnswer(RetrieveDocuments(IdlePipe, docs), text),
                  result |-> IdlePipe]

\* The node add_sources runs on that state.
CallAddSourceInformation ==
    /\ call.op = "add_source_information"
    /\ call.stage = "called"
    /\ call' = [call EXCEPT !.stage = "returned",
                            !.result = AddSourceInformation(call.state)]
    /\ UNCHANGED <<registry, version_log, disk, nextId, vectorstore,
                   rag_workflow, upl, faults, sess, pipe, cache, conv,
                   optimizer>>

NextAnnotate == CallAddSourceInformation

SpecAnnotate == InitAnnotate /\ [][NextAnnotate]_vars

\* C21: add_source_information keeps the generated answer as a prefix and
\* appends one block.  With at least one retrieved chunk the block is the
\* list of cited documents: one line per retrieved chunk, in retrieval
\* order, naming the source file of the chunk, its page when the chunk has
\* one, and its category.  With no retrieved chunk the block is the note
\* that documents are needed.
C21_AnnotateAppendsOneBlock ==
    (call.op = "add_source_information" /\ call.stage = "returned") =>
        LET before == call.state.answer
            after == call.result.answer
            docs == call.docs
            block == after[Len(after)]
        IN  /\ Len(after) = Len(before) + 1
            /\ SubSeq(after, 1, Len(before)) = before
            /\ IF docs # <<>>
               THEN /\ block.part = "citations"
                    /\ Len(block.bullets) = Len(docs)
                    /\ \A i \in 1..Len(docs) :
                         /\ block.bullets[i].source = docs[i].source_file
                         /\ block.bullets[i].page = docs[i].page
                         /\ block.bullets[i].category = <<docs[i].category>>
               ELSE block = Disclaimer

C21_Witness ==
    /\ call.op = "add_source_information" /\ call.stage = "returned"
    /\ Len(call.docs) = 3
    /\ call.docs[1].page = <<>> /\ call.docs[2].page # <<>>
    /\ call.docs[2].source_file = call.docs[3].source_file
    /\ call.result.answer[2].part = "citations"

StateFields ==
    {"question", "context", "answer", "conversation_history", "sources",
     "need_more_info", "username"}

OwnFields(node) ==
    IF node = "retrieve" THEN {"context", "sources"}
    ELSE IF node = "generate" THEN {"answer", "need_more_info"}
    ELSE {"answer"}

\* A node of the graph runs and returns in this step.
StageStep == pipe.pc \in Nodes /\ pipe'.pc # "raised"

\* C23: a node that runs leaves every key of the state it does not own as
\* it was: retrieve writes context and sources, generate writes answer and
\* need_more_info, add_sources writes answer; need_more_info is true after
\* generate exactly when the text of the completion holds the marker
\* sentence; question, username and conversation_history are, at every
\* node and at the end, those generate_response started with; and the step
\* changes no registry row, no version log entry, not the combined index,
\* no index directory and no conversation.
C23_StagesWriteOwnFields ==
    [][StageStep =>
         /\ \A f \in StateFields \ OwnFields(pipe.pc) : pipe'[f] = pipe[f]
         /\ pipe.pc = "generate" =>
               /\ Len(pipe'.answer) = 1
               /\ pipe'.answer[1].part = "text"
               /\ pipe'.need_more_info = (pipe'.answer[1].text = "answer with marker")
         /\ pipe'.question \in Questions
         /\ pipe'.username = Username
         /\ pipe'.conversation_history = GetConversationMessages(conv, conv.current)
         /\ UNCHANGED <<registry, version_log, vectorstore, rag_workflow, disk, conv>>
      ]_vars

C23_Witness ==
    /\ pipe.pc = "END"
    /\ pipe.conversation_history # <<>>
    /\ pipe.need_more_info
    /\ Len(pipe.sources) = 3
    /\ Len(pipe.answer) = 2

\* The positions of the rows a step changes.
ChangedRows == {i \in 1..Len(registry) : registry'[i] # registry[i]}

\* C24: a step that registers an upload of a family changes one row that
\* was there before when the family has an active row, the active row of
\* the family with the highest version, and no row otherwise; a soft delete
\* or a deactivation changes at most the row of its doc_id; the changed row
\* differs from what it was in is_active alone; and no step of these
\* operations changes an index directory that exists.
C24_OnlyTargetFlagChanges ==
    [][/\ Len(registry') = Len(registry) + 1 =>
            LET new == registry'[Len(registry')]
                act == {r \in ActiveRows(registry) : Family(r) = Family(new)}
            IN  IF act = {} THEN ChangedRows = {}
                ELSE \E i \in 1..Len(registry) :
                        /\ ChangedRows = {i}
                        /\ registry[i] \in act
                        /\ registry[i].version = MaxOf({r.version : r \in act})
                        /\ registry'[i] = [registry[i] EXCEPT !.is_active = FALSE]
       /\ (\/ call'.op = "update_document_status"
           \/ call'.op = "delete_document" /\ ~call'.permanently) =>
            /\ Len(registry') = Len(registry)
            /\ \A i \in ChangedRows :
                  /\ registry[i].doc_id = call'.doc_id
                  /\ registry'[i] = [registry[i] EXCEPT !.is_active = FALSE]
            /\ HasRow(registry, call'.doc_id) =>
                  ~RowOf(registry', call'.doc_id).is_active
       /\ \A p \in DocIds : disk[p].status # "absent" => disk'[p] = disk[p]
      ]_vars

C24_Witness ==
    /\ call.op = "delete_document" /\ ~call.permanently /\ call.result
    /\ \E r1, r2, r3 \in Range(registry) :
         /\ Family(r1) = Family(r2) /\ Family(r3) # Family(r1)
         /\ r1.version = 1 /\ ~r1.is_active
         /\ r2.version = 2 /\ r2.is_active
         /\ r3.doc_id = call.doc_id /\ ~r3.is_active
         /\ disk[r3.vector_store_path].status = "ok"

\* The step is an iteration of process_documents whose add_document
\* returned no record.
AddDocumentFailed == nextId' = nextId + 1 /\ ~HasRow(registry', nextId)

\* C27: when add_document returns no record, the step changes no row and
\* writes no version log entry: the version that was active stays active,
\* and every family that had an active row still has one.
C27_FailedAddKeepsPreviousActive ==
    [][AddDocumentFailed =>
         /\ registry' = registry
         /\ version_log' = version_log
         /\ \A fam \in Families :
               (\E r \in ActiveRows(registry) : Family(r) = fam)
                  => \E r \in ActiveRows(registry') : Family(r) = fam]_vars

\* C28: a permanent delete of a registered doc_id that returns False has
\* changed nothing: the row is still there, as it was, and so is its index
\* directory, so that no active row points at a removed index.
C28_FailedPermanentDeleteChangesNothing ==
    [][(/\ call'.op = "delete_document"
        /\ call'.permanently
        /\ ~call'.result
        /\ HasRow(registry, call'.doc_id)) =>
          /\ registry' = registry
          /\ disk' = disk
          /\ \A r \in ActiveRows(registry') :
                disk[r.vector_store_path].status = "ok"
                   => disk'[r.vector_store_path].status = "ok"]_vars

\* ------------------------------------ performance_optimizer.py: the cache

\* The distinct cache keys (query, filters, k) a session asks with.
MaxQueryKeys == 102

\* `if len(self.query_cache) > 100`
QueryCacheLimit == 100

\* `if len(self.recent_queries) > 5`
RecentQueriesLimit == 5

QueryKeys == 1..MaxQueryKeys

\* What improved_vector_search returns for the query of a key.
SearchResults(key) == [of |-> key]

CachedKeys(opt) == {opt.query_cache[i].key : i \in 1..Len(opt.query_cache)}

\* The body of DocumentSearchOptimizer.search: a hit returns the entry and
\* changes nothing; a miss appends the query to recent_queries (the oldest
\* leaves beyond five), stores the results under the key and, beyond a
\* hundred entries, deletes the first key of the dict.
Search(opt, key) ==
    IF key \in CachedKeys(opt)
    THEN [optimizer |-> opt, hit |-> TRUE,
          results |-> (CHOOSE e \in Range(opt.query_cache) : e.key = key).results]
    ELSE LET recent == Append(opt.recent_queries, key)
             kept == IF Len(recent) > RecentQueriesLimit THEN Tail(recent) ELSE recent
             results == SearchResults(key)
             stored == Append(opt.query_cache, [key |-> key, results |-> results])
             bounded == IF Len(stored) > QueryCacheLimit THEN Tail(stored) ELSE stored
         IN  [optimizer |-> [query_cache |-> bounded, recent_queries |-> kept],
              hit |-> FALSE, results |-> results]

\* from performance_optimizer import PerformanceOptimizer, then
\* PerformanceOptimizer.DocumentSearchOptimizer(vectorstore).search(query).
CallSearch(key) ==
    /\ IF ModuleCompiles
       THEN LET r == Search(optimizer, key)
            IN  /\ optimizer' = r.optimizer
                /\ call' = [op |-> "search", key |-> key, stage |-> "returned",
                            hit |-> r.hit, results |-> r.results]
       ELSE /\ optimizer' = optimizer
            /\ call' = [op |-> "search", key |-> key, stage |-> "raised",
                        hit |-> FALSE, results |-> SearchResults(0)]
    /\ UNCHANGED <<registry, version_log, disk, nextId, vectorstore,
                   rag_workflow, upl, faults, sess, pipe, cache, conv>>

NextOptimizer == \E key \in QueryKeys : CallSearch(key)

SpecOptimizer == Init /\ [][NextOptimizer]_vars

\* C25: every call of search returns; after it the cache holds at most 100
\* entries and, when the call was a miss, the entry of its key as the
\* newest one; and a miss on a full cache has removed the oldest entry and
\* no other.
C25_QueryCacheBounded ==
    [][call'.op = "search" =>
         /\ call'.stage = "returned"
         /\ Len(optimizer'.query_cache) <= 100
         /\ ~call'.hit =>
               /\ optimizer'.query_cache # <<>>
               /\ optimizer'.query_cache[Len(optimizer'.query_cache)].key = call'.key
               /\ optimizer'.query_cache =
                     (IF Len(optimizer.query_cache) = 100
                      THEN Tail(optimizer.query_cache)
                      ELSE optimizer.query_cache)
                        \o <<[key |-> call'.key, results |-> call'.results]>>
         /\ call'.hit => optimizer' = optimizer]_vars

\* C26: an index object the session holds is never modified: whenever a
\* step changes the entries of the combined index of the session, the
\* session holds a new object after it, built by from_documents or by a
\* rebuild, and not the object it held before with entries added.
C26_IndexReplacedNotMutated ==
    [][(vectorstore.kind = "index" /\ vectorstore' # vectorstore) =>
          ~(call'.op = "process_documents" /\ call'.same_object)]_vars

\* C29: in every state of a session that holds a combined index, a
\* compiled workflow is stored as well; and an answer generate_response
\* gave while the session held an index came from the graph, not from the
\* completion without documents.
C29_IndexImpliesWorkflow ==
    /\ HasVectorstore => rag_workflow
    /\ (pipe.pc \in {"direct", "direct_done", "direct_raised"}) => ~HasVectorstore
    /\ (call.op = "generate_response" /\ call.has_vectorstore) =>
          call.ended \in {"END", "raised"}

C29_Witness ==
    /\ call.op = "generate_response" /\ call.has_vectorstore
    /\ call.ended = "END"
    /\ \E r \in Range(registry) : ~r.is_active
    /\ ActiveRows(registry) # {}

\* The turns of a conversation as chat_interface shows them.
Shown(cv, c) == GetConversationMessages(cv, c)

\* C30: when chat_interface handles a prompt in a conversation that
\* get_user_conversations lists, both calls of add_message return True and
\* the conversation is extended by the user turn followed by the assistant
\* turn, and by nothing else.
C30_ChatExchangeAppendsTwoTurns ==
    [][(call'.op = "chat_interface" /\ call'.listed) =>
         LET c == call'.conversation_id
         IN  /\ call'.results = <<TRUE, TRUE>>
             /\ Shown(conv', c) =
                   Shown(conv, c) \o
                      <<[role |-> "user", content |-> call'.prompt],
                        [role |-> "assistant", content |-> call'.response]>>]_vars

====
